---- MODULE Spec2Model ----
(***************************************************************************)
(* Model of the middle_out codec: BitWriter/BitReader (bitstream.cpp),     *)
(* SymbolStats and the rANS encoder/decoder (rans.cpp), the LZ77 parser,   *)
(* the container and the Compress/Decompress drivers (compressor.cpp).     *)
(*                                                                         *)
(* 32-bit unsigned values of the rANS coder are kept as two 16-bit halves  *)
(* [hi, lo] (value = hi * 65536 + lo) so that every operation is computed  *)
(* modulo 2^32 exactly as the uint32_t arithmetic of the source.           *)
(***************************************************************************)
EXTENDS Integers, Sequences, FiniteSets, TLC

\* ------------------------------------------------------------------ bounds
\* Short inputs: every byte sequence over 0..MaxByte of length 0..MaxLen.
MaxByte == 1
MaxLen == 6
\* Run inputs: n equal bytes, n in 1..MaxRun.
MaxRun == 64
\* Skewed inputs: SkewRun zero bytes, then up to TailLen bytes of 1..MaxTailByte.
SkewRun == 64
MaxTailByte == 2
TailLen == 3
\* One long run, long enough for the 255-byte match cap to bind.
LongRun == 640
\* Histogram inputs whose scaled total exceeds PROB_SCALE.
HugeRun == 8190
\* Harness bounds: bits written, symbols encoded.
MaxBits == 10
MaxEnc == 3
\* Two interleaved compressions: inputs over 0..TwoByte of length 1..TwoLen.
TwoByte == 1
TwoLen == 2

\* ------------------------------------------------------- program constants
PROB_BITS == 12
PROB_SCALE == 2 ^ PROB_BITS
RANS_L == 2 ^ 16
WINDOW_SIZE == 32768
MAX_MATCH == 255
MIN_MATCH == 3
MAGIC == 1296647247
MODEL_BYTES == 512

Byte == 0..255
Half == 2 ^ 16

\* ------------------------------------------------------- sequence helpers
Run(b, n) == [i \in 1..n |-> b]

RECURSIVE SeqsUpTo(_, _)
SeqsUpTo(S, n) ==
  IF n = 0 THEN {<<>>}
  ELSE LET shorter == SeqsUpTo(S, n - 1)
       IN shorter \cup {Append(s, x) : s \in {t \in shorter : Len(t) = n - 1}, x \in S}

Reverse(s) == [i \in 1..Len(s) |-> s[Len(s) + 1 - i]]

\* the sum of f over the set S
RECURSIVE SumOver(_, _)
SumOver(f, S) ==
  IF S = {} THEN 0
  ELSE LET x == CHOOSE y \in S : TRUE
       IN f[x] + SumOver(f, S \ {x})

\* f[lo] + ... + f[hi]
RECURSIVE SumRange(_, _, _)
SumRange(f, lo, hi) ==
  IF lo > hi THEN 0
  ELSE IF lo = hi THEN f[lo]
  ELSE LET mid == (lo + hi) \div 2
       IN SumRange(f, lo, mid) + SumRange(f, mid + 1, hi)

\* ---------------------------------------------------- 32-bit unsigned words
U32(n) == [hi |-> (n \div Half) % Half, lo |-> n % Half]

U32Shr8(x) == [hi |-> x.hi \div 256, lo |-> (x.hi % 256) * 256 + x.lo \div 256]

U32Shl8Or(x, b) == [hi |-> ((x.hi % 256) * 256 + x.lo \div 256) % Half,
                    lo |-> (x.lo % 256) * 256 + b]

U32Shl(x, k) ==
  LET p == 2 ^ k
      q == 2 ^ (16 - k)
  IN [hi |-> (x.hi % q) * p + x.lo \div q, lo |-> (x.lo % q) * p]

\* x + n modulo 2^32, for a machine-int n (possibly negative)
U32Add(x, n) ==
  LET s == x.lo + n
  IN [hi |-> (x.hi + s \div Half) % Half, lo |-> s % Half]

\* x / d and x % d for 1 <= d <= 32768
U32Div(x, d) == [hi |-> x.hi \div d, lo |-> ((x.hi % d) * Half + x.lo) \div d]
U32Mod(x, d) == ((x.hi % d) * Half + x.lo) % d

\* a * f modulo 2^32 for a < 2^20 and f < 2^16
U32Mul(a, f) ==
  LET p1 == (a \div 1024) * f
      p0 == (a % 1024) * f
  IN U32Add([hi |-> (p1 \div 64) % Half, lo |-> (p1 % 64) * 1024], p0)

\* x >= y on 32-bit words
U32Ge(x, y) == x.hi > y.hi \/ (x.hi = y.hi /\ x.lo >= y.lo)

\* little-endian bytes of a word / of a small size_t cast to uint32_t
U32Bytes(x) == <<x.lo % 256, x.lo \div 256, x.hi % 256, x.hi \div 256>>
LE32(n) == U32Bytes(U32(n))
\* the uint32_t stored at byte offset off (0-based) of a byte sequence
U32At(bytes, off) ==
  bytes[off + 1] + 256 * bytes[off + 2] + 65536 * bytes[off + 3]
    + 16777216 * bytes[off + 4]

\* ----------------------------------------------------- bitstream.cpp
NewBitWriter == [buffer |-> <<>>, current_byte |-> 0, bit_count |-> 0]

\* current_byte |= (1 << k) on a uint8_t
OrBit(byte, k) == IF (byte \div (2 ^ k)) % 2 = 1 THEN byte ELSE (byte + 2 ^ k) % 256

\* WriteBit filling the byte from bit 0 upwards
WriteBit_LsbFirst(w, bit) ==
  LET cb == IF bit THEN OrBit(w.current_byte, w.bit_count) ELSE w.current_byte
      bc == w.bit_count + 1
  IN IF bc = 8
     THEN [buffer |-> Append(w.buffer, cb), current_byte |-> 0, bit_count |-> 0]
     ELSE [buffer |-> w.buffer, current_byte |-> cb, bit_count |-> bc]

WriteBit(w, bit) ==
  LET cb == IF bit THEN OrBit(w.current_byte, 7 - w.bit_count) ELSE w.current_byte
      bc == w.bit_count + 1
  IN IF bc = 8
     THEN [buffer |-> Append(w.buffer, cb), current_byte |-> 0, bit_count |-> 0]
     ELSE [buffer |-> w.buffer, current_byte |-> cb, bit_count |-> bc]

RECURSIVE WriteFlagBits(_, _, _)
WriteFlagBits(w, flags, k) ==
  IF k > Len(flags) THEN w ELSE WriteFlagBits(WriteBit(w, flags[k]), flags, k + 1)

BitWriterFlush(w) ==
  IF w.bit_count > 0
  THEN [buffer |-> Append(w.buffer, w.current_byte), current_byte |-> 0, bit_count |-> 0]
  ELSE w

NewBitReader == [byte_index |-> 0, bit_index |-> 0]

\* ReadBit: the bit returned and the reader afterwards
ReadBit(bytes, r) ==
  IF r.byte_index >= Len(bytes)
  THEN [bit |-> FALSE, reader |-> r]
  ELSE LET b == (bytes[r.byte_index + 1] \div (2 ^ (7 - r.bit_index))) % 2 = 1
           bi == r.bit_index + 1
       IN [bit |-> b,
           reader |-> IF bi = 8
                      THEN [byte_index |-> r.byte_index + 1, bit_index |-> 0]
                      ELSE [byte_index |-> r.byte_index, bit_index |-> bi]]

\* ----------------------------------------------------- rans.cpp: SymbolStats
ZeroStats == [freqs |-> [s \in Byte |-> 0], cum_freqs |-> [i \in 0..256 |-> 0]]

\* cum_freqs[0] = 0; for (i = 0; i < 256; ++i) cum_freqs[i+1] = cum_freqs[i] + freqs[i];
\* (cum_freqs[i] is the sum of freqs[0..i-1]; only non-zero entries contribute)
CumFreqs(freqs) ==
  LET support == {s \in Byte : freqs[s] # 0}
  IN [i \in 0..256 |-> SumOver(freqs, {s \in support : s < i})]

\* for (uint8_t b : data) freqs[b]++
Tally(data) ==
  LET seen == {data[i] : i \in 1..Len(data)}
  IN [s \in Byte |->
        IF s \in seen THEN Cardinality({i \in 1..Len(data) : data[i] = s}) ELSE 0]

\* ScaleFreq without the raise of a zero result to 1
ScaleFreq_AllowZero(raw, total) ==
  IF raw > 0 THEN (raw * PROB_SCALE) \div total ELSE raw

\* scaled = freqs[i] * PROB_SCALE / total; if (scaled == 0) scaled = 1
ScaleFreq(raw, total) ==
  IF raw > 0
  THEN LET scaled == (raw * PROB_SCALE) \div total
       IN IF scaled = 0 THEN 1 ELSE scaled
  ELSE raw

\* while (current_total > PROB_SCALE) { if (freqs[i] > 1) {...} i = (i + 1) % 256; }
RECURSIVE Shave(_, _, _)
Shave(f, current_total, i) ==
  IF current_total > PROB_SCALE
  THEN IF f[i] > 1
       THEN Shave([f EXCEPT ![i] = f[i] - 1], current_total - 1, (i + 1) % 256)
       ELSE Shave(f, current_total, (i + 1) % 256)
  ELSE f

AdjustFreqs(f, current_total) ==
  IF current_total < PROB_SCALE
  THEN [f EXCEPT ![0] = f[0] + (PROB_SCALE - current_total)]
  ELSE IF current_total > PROB_SCALE THEN Shave(f, current_total, 0) ELSE f

\* SymbolStats::Count; st is the object before the call (an empty buffer
\* returns early and leaves cum_freqs as it was)
Count(st, data) ==
  LET raw == Tally(data)
      total == Len(data)
  IN IF total = 0
     THEN [freqs |-> raw, cum_freqs |-> st.cum_freqs]
     ELSE LET scaled == [s \in Byte |-> ScaleFreq(raw[s], total)]
              adjusted == AdjustFreqs(scaled, SumRange(scaled, 0, 255))
          IN [freqs |-> adjusted, cum_freqs |-> CumFreqs(adjusted)]

\* ----------------------------------------------------- rans.cpp: encoder
\* while (state >= (1u << (31 - PROB_BITS)) * freq) { push(state & 0xFF); state >>= 8; }
\* the product is a uint32_t: 2^19 * freq mod 2^32 = 2^19 * (freq mod 2^13)
RenormThreshold(freq) == [hi |-> (2 ^ (31 - PROB_BITS - 16)) * (freq % (2 ^ (PROB_BITS + 1))),
                          lo |-> 0]

RECURSIVE RenormOut(_, _, _)
RenormOut(state, buffer, freq) ==
  IF U32Ge(state, RenormThreshold(freq))
  THEN RenormOut(U32Shr8(state), Append(buffer, state.lo % 256), freq)
  ELSE [state |-> state, buffer |-> buffer]

\* with a zero threshold (freq = 0) the condition state >= 0 never fails: the
\* loop pushes bytes for ever and Encode does not return
EncodeHangs(stats, symbol) == RenormThreshold(stats.freqs[symbol]) = U32(0)

\* EncodeUpdate without the shift of the quotient
EncodeUpdate_NoShift(state, freq, start) ==
  U32Add(U32Div(state, freq), U32Mod(state, freq) + start)

\* state = ((state / freq) << PROB_BITS) + (state % freq) + start
EncodeUpdate(state, freq, start) ==
  U32Add(U32Shl(U32Div(state, freq), PROB_BITS), U32Mod(state, freq) + start)

\* RansEncoderImpl::Encode on (state, buffer) under stats
Encode(state, buffer, stats, symbol) ==
  LET freq == stats.freqs[symbol]
      start == stats.cum_freqs[symbol]
      r == RenormOut(state, buffer, freq)
  IN [state |-> EncodeUpdate(r.state, freq, start), buffer |-> r.buffer]

\* RansEncoderImpl::Flush
EncoderFlush(state, buffer) == buffer \o U32Bytes(state)

\* RansEncoder::GetModelData
GetModelData(stats) ==
  [k \in 1..(2 * 256) |->
     LET f == stats.freqs[(k - 1) \div 2]
     IN IF (k - 1) % 2 = 0 THEN f % 256 ELSE (f \div 256) % 256]

\* ----------------------------------------------------- rans.cpp: decoder
\* RansDecoderImpl constructor (stats are not initialised by it)
NewDecoder(bytes, stats) ==
  LET n == Len(bytes)
  IN IF n >= 4
     THEN [state |-> [hi |-> bytes[n - 1] + 256 * bytes[n], lo |-> bytes[n - 3] + 256 * bytes[n - 2]],
           ptr |-> n - 4, stats |-> stats]
     ELSE [state |-> U32(RANS_L), ptr |-> n, stats |-> stats]

\* RansDecoderImpl::Init(model_data)
SetModel(d, model) ==
  IF Len(model) < MODEL_BYTES THEN d
  ELSE LET f == [i \in Byte |-> model[2 * i + 1] + 256 * model[2 * i + 2]]
       IN [d EXCEPT !.stats = [freqs |-> f, cum_freqs |-> CumFreqs(f)]]

\* for (i = 0; i < 256; ++i) if (slot < cum_freqs[i+1]) { symbol = i; break; }
\* (the first such i, 0 when there is none)
FindSymbol(cum, slot) ==
  IF \E i \in Byte : slot < cum[i + 1]
  THEN CHOOSE i \in Byte : slot < cum[i + 1] /\ \A j \in 0..(i - 1) : ~(slot < cum[j + 1])
  ELSE 0

\* while (state < RANS_L && ptr > 0) state = (state << 8) | data[--ptr];
RECURSIVE RenormIn(_, _, _)
RenormIn(state, ptr, bytes) ==
  IF ~U32Ge(state, U32(RANS_L)) /\ ptr > 0
  THEN RenormIn(U32Shl8Or(state, bytes[ptr]), ptr - 1, bytes)
  ELSE [state |-> state, ptr |-> ptr]

\* RansDecoderImpl::Decode: the symbol returned and the decoder afterwards
Decode(d, bytes) ==
  LET slot == d.state.lo % PROB_SCALE
      symbol == FindSymbol(d.stats.cum_freqs, slot)
      freq == d.stats.freqs[symbol]
      start == d.stats.cum_freqs[symbol]
      shifted == d.state.hi * (2 ^ (16 - PROB_BITS)) + d.state.lo \div PROB_SCALE
      r == RenormIn(U32Add(U32Mul(shifted, freq), slot - start), d.ptr, bytes)
  IN [symbol |-> symbol, dec |-> [d EXCEPT !.state = r.state, !.ptr = r.ptr]]

\* ----------------------------------------------------- compressor.cpp: LZ77
Min(a, b) == IF a < b THEN a ELSE b
Max(a, b) == IF a > b THEN a ELSE b

\* while (pos + len < limit && i + len < pos && data[i + len] == data[pos + len]) len++;
\* MatchLenTo without the test i + len < pos
RECURSIVE MatchLenTo_Overlap(_, _, _, _, _, _)
MatchLenTo_Overlap(data, i, pos, limit, len, cap) ==
  IF len < cap /\ pos + len < limit /\ data[i + len + 1] = data[pos + len + 1]
  THEN MatchLenTo_Overlap(data, i, pos, limit, len + 1, cap)
  ELSE len

\* (run from len until the condition fails or len reaches cap)
RECURSIVE MatchLenTo(_, _, _, _, _, _)
MatchLenTo(data, i, pos, limit, len, cap) ==
  IF len < cap /\ pos + len < limit /\ i + len < pos
     /\ data[i + len + 1] = data[pos + len + 1]
  THEN MatchLenTo(data, i, pos, limit, len + 1, cap)
  ELSE len

\* limit <= pos + 255, so the loop ends within four stretches of 64 iterations
MatchLen(data, i, pos, limit) ==
  LET l1 == MatchLenTo(data, i, pos, limit, 0, 64)
      l2 == MatchLenTo(data, i, pos, limit, l1, 128)
      l3 == MatchLenTo(data, i, pos, limit, l2, 192)
  IN MatchLenTo(data, i, pos, limit, l3, 256)

\* for (i = start_search; i < pos; ++i) { ...; if (len > max_len) {...} }
\* Search with best_dist one short
Search_DistOffByOne(data, start_search, pos, limit) ==
  LET lens == [i \in start_search..(pos - 1) |-> MatchLen(data, i, pos, limit)]
  IN IF \A i \in DOMAIN lens : lens[i] = 0
     THEN [distance |-> 0, length |-> 0]
     ELSE LET best == CHOOSE i \in DOMAIN lens :
                        \A j \in DOMAIN lens :
                          lens[j] <= lens[i] /\ (j < i => lens[j] < lens[i])
          IN [distance |-> pos - best - 1, length |-> lens[best]]

\* (max_len starts at 0 and is replaced only by a strictly longer len, so the
\* loop ends with the earliest i of the greatest len, or with 0, 0)
Search(data, start_search, pos, limit) ==
  LET lens == [i \in start_search..(pos - 1) |-> MatchLen(data, i, pos, limit)]
  IN IF \A i \in DOMAIN lens : lens[i] = 0
     THEN [distance |-> 0, length |-> 0]
     ELSE LET best == CHOOSE i \in DOMAIN lens :
                        \A j \in DOMAIN lens :
                          lens[j] <= lens[i] /\ (j < i => lens[j] < lens[i])
          IN [distance |-> pos - best, length |-> lens[best]]

FindLongestMatch(data, pos, window_size) ==
  LET limit == Min(Len(data), pos + MAX_MATCH)
      start_search == Max(0, pos - window_size)
      best == Search(data, start_search, pos, limit)
  IN IF best.length < MIN_MATCH THEN [distance |-> 0, length |-> 0] ELSE best

\* packed_matches: distance low byte, distance high byte, length
RECURSIVE PackMatches(_, _)
PackMatches(ms, k) ==
  IF k > Len(ms) THEN <<>>
  ELSE <<ms[k].distance % 256, (ms[k].distance \div 256) % 256, ms[k].length % 256>>
         \o PackMatches(ms, k + 1)

\* ----------------------------------------------------- compressor.cpp: container
Header(orig_size, rans_size, flags_size, match_size, model_size) ==
  LE32(MAGIC) \o LE32(orig_size) \o LE32(rans_size) \o LE32(flags_size)
    \o LE32(match_size) \o LE32(model_size)

\* Container whose match_size field counts records, not bytes
Container_RecordCount(orig_size, rans_out, flag_bytes, packed, model) ==
  Header(orig_size, Len(rans_out), Len(flag_bytes), Len(packed) \div 3, Len(model))
    \o rans_out \o flag_bytes \o packed \o model

Container(orig_size, rans_out, flag_bytes, packed, model) ==
  Header(orig_size, Len(rans_out), Len(flag_bytes), Len(packed), Len(model))
    \o rans_out \o flag_bytes \o packed \o model

\* std::vector<uint8_t> v(n); in.read(v.data(), n): bytes past the end stay 0
ReadRegion(bytes, off, n) ==
  [k \in 1..n |-> IF off + k <= Len(bytes) THEN bytes[off + k] ELSE 0]

\* =================================================================== state
VARIABLES
  data,            \* Compress: the input buffer
  pc,              \* position of the running driver
  enc_state,       \* enc_impl.state (file scope)
  enc_buffer,      \* enc_impl.buffer
  enc_stats,       \* enc_impl.stats
  pos,             \* Compress: parse position
  literals,        \* Compress: literal bytes
  matches,         \* Compress: match tokens
  is_match,        \* Compress: one flag per token
  lit_i,           \* Compress: index of the next literal to encode
  bw,              \* a BitWriter (flags_out)
  packed_matches,  \* Compress: serialized match records
  file,            \* the artifact written by Compress
  orig_size,       \* Decompress: header field
  rans_data,       \* Decompress: rANS region
  flags_data,      \* Decompress: flag region
  match_data,      \* Decompress: match region
  model_data,      \* Decompress: model region
  dec,             \* *dec_impl
  br,              \* a BitReader (flags_in)
  output,          \* Decompress: output buffer
  match_ptr,       \* Decompress: offset into match_data
  op_count,        \* Decompress: iterations of the decode loop
  out_file,        \* the file written by Decompress
  wbits,           \* bit harness: bits written so far
  rbits,           \* bit harness: bits read back
  encoded,         \* rANS harness: symbols encoded so far
  decoded,         \* rANS harness: symbols decoded so far
  thr              \* two interleaved compressions: per-invocation locals

encVars == <<enc_state, enc_buffer, enc_stats>>
parseVars == <<pos, literals, matches, is_match, lit_i, packed_matches>>
regionVars == <<orig_size, rans_data, flags_data, match_data, model_data>>
decVars == <<dec, br, output, match_ptr, op_count, out_file>>
harnessVars == <<wbits, rbits, encoded, decoded>>
vars == <<data, pc, encVars, parseVars, bw, file, regionVars, decVars, harnessVars, thr>>

\* ------------------------------------------------------------------ inputs
ShortInputs == SeqsUpTo(0..MaxByte, MaxLen)
Tails == SeqsUpTo(1..MaxTailByte, TailLen)
RunInputs == {Run(88, n) : n \in 1..MaxRun}
SkewInputs == {Run(0, SkewRun) \o t : t \in Tails}
LongInputs == {Run(88, LongRun)}
\* The histogram of Count does not depend on the order of the bytes, so the
\* inputs that only feed a model are taken with their tail in ascending order.
SortedTails == {t \in Tails : \A i \in 1..(Len(t) - 1) : t[i] <= t[i + 1]}
SkewModels == {Run(0, SkewRun) \o t : t \in SortedTails}
HugeInputs == {Run(0, HugeRun) \o t : t \in SortedTails}

Threads == {1, 2}
IdleThread == [pc |-> "idle", data |-> <<>>, lits |-> <<>>, i |-> 0,
               out |-> <<>>, model |-> <<>>]

\* everything but data and pc, as it is when the program starts
InitRest ==
  /\ enc_state = U32(RANS_L) /\ enc_buffer = <<>> /\ enc_stats = ZeroStats
  /\ pos = 0 /\ literals = <<>> /\ matches = <<>> /\ is_match = <<>> /\ lit_i = 0
  /\ bw = NewBitWriter /\ packed_matches = <<>> /\ file = <<>>
  /\ orig_size = 0 /\ rans_data = <<>> /\ flags_data = <<>> /\ match_data = <<>>
  /\ model_data = <<>>
  /\ dec = NewDecoder(<<>>, ZeroStats) /\ br = NewBitReader
  /\ output = <<>> /\ match_ptr = 0 /\ op_count = 0 /\ out_file = <<>>
  /\ wbits = <<>> /\ rbits = <<>> /\ encoded = <<>> /\ decoded = <<>>
  /\ thr = [t \in Threads |-> IdleThread]

Init ==
  /\ data \in ShortInputs \cup RunInputs \cup SkewInputs \cup LongInputs
  /\ pc = "c_start"
  /\ InitRest

\* ================================================================ Compress
\* lines 42-72: read the input, return on empty, rans.Init(), rans.BuildModel(data)
CompressBegin ==
  /\ pc = "c_start"
  /\ IF data = <<>>
     THEN /\ pc' = "c_return"
          /\ UNCHANGED encVars
     ELSE /\ pc' = "c_parse"
          /\ enc_state' = U32(RANS_L)
          /\ enc_buffer' = <<>>
          /\ enc_stats' = Count(enc_stats, data)
  /\ pos' = 0 /\ literals' = <<>> /\ matches' = <<>> /\ is_match' = <<>>
  /\ UNCHANGED <<data, lit_i, packed_matches, bw, file, regionVars, decVars, harnessVars, thr>>

\* ParseToken that moves one byte on after a match
ParseToken_AdvanceOne(d, p) ==
  LET m == FindLongestMatch(d, p, WINDOW_SIZE)
  IN [match |-> m.length >= MIN_MATCH, m |-> m, advance |-> 1]

\* one token of the parse: what lines 75-88 append and how far pos moves
ParseToken(d, p) ==
  LET m == FindLongestMatch(d, p, WINDOW_SIZE)
  IN IF m.length >= MIN_MATCH
     THEN [match |-> TRUE, m |-> m, advance |-> m.length]
     ELSE [match |-> FALSE, m |-> m, advance |-> 1]

\* lines 73-89: one iteration of the parse loop
ParseStep ==
  /\ pc = "c_parse"
  /\ pos < Len(data)
  /\ LET t == ParseToken(data, pos)
     IN /\ IF t.match
           THEN /\ matches' = Append(matches, t.m)
                /\ UNCHANGED literals
           ELSE /\ literals' = Append(literals, data[pos + 1])
                /\ UNCHANGED matches
        /\ is_match' = Append(is_match, t.match)
        /\ pos' = pos + t.advance
  /\ UNCHANGED <<data, pc, encVars, lit_i, packed_matches, bw, file, regionVars, decVars,
                 harnessVars, thr>>

\* lines 93-113: the flag bits and the packed match records
WriteFlags ==
  /\ pc = "c_parse"
  /\ pos >= Len(data)
  /\ bw' = WriteFlagBits(NewBitWriter, is_match, 1)
  /\ packed_matches' = PackMatches(matches, 1)
  /\ lit_i' = Len(literals) - 1
  /\ pc' = "c_encode"
  /\ UNCHANGED <<data, encVars, pos, literals, matches, is_match, file, regionVars, decVars,
                 harnessVars, thr>>

\* lines 118-120: one iteration of the reverse literal loop
EncodeLiteral ==
  /\ pc = "c_encode"
  /\ lit_i >= 0
  /\ IF EncodeHangs(enc_stats, literals[lit_i + 1])
     THEN /\ pc' = "c_hung"
          /\ UNCHANGED <<enc_state, enc_buffer, lit_i>>
     ELSE LET e == Encode(enc_state, enc_buffer, enc_stats, literals[lit_i + 1])
          IN /\ enc_state' = e.state
             /\ enc_buffer' = e.buffer
             /\ lit_i' = lit_i - 1
             /\ UNCHANGED pc
  /\ UNCHANGED <<data, enc_stats, pos, literals, matches, is_match, packed_matches, bw,
                 file, regionVars, decVars, harnessVars, thr>>

\* lines 122-154: flush both coders and write the container
CompressFinish ==
  /\ pc = "c_encode"
  /\ lit_i < 0
  /\ bw' = BitWriterFlush(bw)
  /\ enc_buffer' = EncoderFlush(enc_state, enc_buffer)
  /\ file' = Container(Len(data), enc_buffer', bw'.buffer, packed_matches,
                       GetModelData(enc_stats))
  /\ pc' = "d_start"
  /\ UNCHANGED <<data, enc_state, enc_stats, parseVars, regionVars, decVars, harnessVars, thr>>

\* ============================================================== Decompress
\* lines 180-219: header, regions, decoder and bit reader
DecompressOpen ==
  /\ pc = "d_start"
  /\ IF U32At(file, 0) # MAGIC
     THEN /\ pc' = "d_return"
          /\ UNCHANGED <<regionVars, dec, br, output, match_ptr, op_count>>
     ELSE LET rs == U32At(file, 8)
              fs == U32At(file, 12)
              ms == U32At(file, 16)
              mds == U32At(file, 20)
          IN /\ orig_size' = U32At(file, 4)
             /\ rans_data' = ReadRegion(file, 24, rs)
             /\ flags_data' = ReadRegion(file, 24 + rs, fs)
             /\ match_data' = ReadRegion(file, 24 + rs + fs, ms)
             /\ model_data' = ReadRegion(file, 24 + rs + fs + ms, mds)
             /\ dec' = SetModel(NewDecoder(rans_data', dec.stats), model_data')
             /\ br' = NewBitReader
             /\ output' = <<>>
             /\ match_ptr' = 0
             /\ op_count' = 0
             /\ pc' = "d_loop"
  /\ UNCHANGED <<data, encVars, parseVars, bw, file, out_file, harnessVars, thr>>

\* for (i = 0; i < len; ++i) output.push_back(output[start + i]);
\* Iteration i reads index start + i and appends it at index |out| + i. With
\* dist = |out| - start >= 1 the byte read is an old byte while start + i < |out|
\* and otherwise the byte appended dist iterations earlier, that is
\* out[start + i mod dist]. With dist = 0 every read is one past the end of
\* the vector: g stands for what such a read returns.
CopyMatch(out, start, len, g) ==
  LET dist == Len(out) - start
  IN out \o [i \in 1..len |-> IF dist = 0 THEN g ELSE out[start + ((i - 1) % dist) + 1]]

\* values an out-of-bounds read of the output buffer may return
StrayBytes == {0, 255}

\* the decode loop going on to the next token after a distance beyond the output
DecompressStep_NoDistanceCheck ==
  /\ pc = "d_loop"
  /\ Len(output) < orig_size
  /\ op_count' = op_count + 1
  /\ LET rb == ReadBit(flags_data, br)
     IN /\ br' = rb.reader
        /\ IF ~rb.bit
           THEN LET r == Decode(dec, rans_data)
                IN /\ dec' = r.dec
                   /\ output' = Append(output, r.symbol)
                   /\ UNCHANGED <<pc, match_ptr>>
           ELSE IF match_ptr + 3 > Len(match_data)
                THEN /\ pc' = "d_break"
                     /\ UNCHANGED <<dec, output, match_ptr>>
                ELSE LET dist == match_data[match_ptr + 1] + 256 * match_data[match_ptr + 2]
                         len == match_data[match_ptr + 3]
                     IN /\ match_ptr' = match_ptr + 3
                        /\ UNCHANGED dec
                        /\ IF dist > Len(output)
                           THEN UNCHANGED <<pc, output>>
                           ELSE /\ output' \in {CopyMatch(output, Len(output) - dist, len, g) :
                                               g \in StrayBytes}
                                /\ UNCHANGED pc
  /\ UNCHANGED <<data, encVars, parseVars, bw, file, regionVars, out_file, harnessVars, thr>>

\* the decode loop leaving match_ptr on the record it has just used
DecompressStep_KeepsRecord ==
  /\ pc = "d_loop"
  /\ Len(output) < orig_size
  /\ op_count' = op_count + 1
  /\ LET rb == ReadBit(flags_data, br)
     IN /\ br' = rb.reader
        /\ IF ~rb.bit
           THEN LET r == Decode(dec, rans_data)
                IN /\ dec' = r.dec
                   /\ output' = Append(output, r.symbol)
                   /\ UNCHANGED <<pc, match_ptr>>
           ELSE IF match_ptr + 3 > Len(match_data)
                THEN /\ pc' = "d_break"
                     /\ UNCHANGED <<dec, output, match_ptr>>
                ELSE LET dist == match_data[match_ptr + 1] + 256 * match_data[match_ptr + 2]
                         len == match_data[match_ptr + 3]
                     IN /\ UNCHANGED match_ptr
                        /\ UNCHANGED dec
                        /\ IF dist > Len(output)
                           THEN /\ pc' = "d_break"
                                /\ UNCHANGED output
                           ELSE /\ output' \in {CopyMatch(output, Len(output) - dist, len, g) :
                                               g \in StrayBytes}
                                /\ UNCHANGED pc
  /\ UNCHANGED <<data, encVars, parseVars, bw, file, regionVars, out_file, harnessVars, thr>>

\* lines 221-249: one iteration of the decode loop
DecompressStep ==
  /\ pc = "d_loop"
  /\ Len(output) < orig_size
  /\ op_count' = op_count + 1
  /\ LET rb == ReadBit(flags_data, br)
     IN /\ br' = rb.reader
        /\ IF ~rb.bit
           THEN LET r == Decode(dec, rans_data)
                IN /\ dec' = r.dec
                   /\ output' = Append(output, r.symbol)
                   /\ UNCHANGED <<pc, match_ptr>>
           ELSE IF match_ptr + 3 > Len(match_data)
                THEN /\ pc' = "d_break"
                     /\ UNCHANGED <<dec, output, match_ptr>>
                ELSE LET dist == match_data[match_ptr + 1] + 256 * match_data[match_ptr + 2]
                         len == match_data[match_ptr + 3]
                     IN /\ match_ptr' = match_ptr + 3
                        /\ UNCHANGED dec
                        /\ IF dist > Len(output)
                           THEN /\ pc' = "d_break"
                                /\ UNCHANGED output
                           ELSE /\ output' \in {CopyMatch(output, Len(output) - dist, len, g) :
                                               g \in StrayBytes}
                                /\ UNCHANGED pc
  /\ UNCHANGED <<data, encVars, parseVars, bw, file, regionVars, out_file, harnessVars, thr>>

\* lines 250-255: write what was decoded
DecompressWrite ==
  /\ \/ pc = "d_loop" /\ Len(output) >= orig_size
     \/ pc = "d_break"
  /\ out_file' = output
  /\ pc' = "done"
  /\ UNCHANGED <<data, encVars, parseVars, bw, file, regionVars, dec, br, output, match_ptr, op_count,
                 harnessVars, thr>>

Pipeline ==
  \/ CompressBegin
  \/ ParseStep
  \/ WriteFlags
  \/ EncodeLiteral
  \/ CompressFinish
  \/ DecompressOpen
  \/ DecompressStep
  \/ DecompressWrite

Next == Pipeline

Spec == Init /\ [][Next]_vars

\* ======================================================== bitstream harness
\* BitWriter::WriteBit with any bit
BitWrite ==
  /\ pc = "b_write"
  /\ Len(wbits) < MaxBits
  /\ \E b \in BOOLEAN :
       /\ bw' = WriteBit(bw, b)
       /\ wbits' = Append(wbits, b)
  /\ UNCHANGED <<data, pc, encVars, parseVars, file, regionVars, decVars, rbits, encoded,
                 decoded, thr>>

\* BitWriter::Flush, then a BitReader over GetData()
BitFlush ==
  /\ pc = "b_write"
  /\ bw' = BitWriterFlush(bw)
  /\ flags_data' = bw'.buffer
  /\ br' = NewBitReader
  /\ pc' = "b_read"
  /\ UNCHANGED <<data, encVars, parseVars, file, orig_size, rans_data, match_data,
                 model_data, dec, output, match_ptr, op_count, out_file, harnessVars, thr>>

\* BitReader::ReadBit, once per bit written
BitRead ==
  /\ pc = "b_read"
  /\ Len(rbits) < Len(wbits)
  /\ LET rb == ReadBit(flags_data, br)
     IN /\ br' = rb.reader
        /\ rbits' = Append(rbits, rb.bit)
  /\ UNCHANGED <<data, pc, encVars, parseVars, bw, file, regionVars, dec, output, match_ptr, op_count,
                 out_file, wbits, encoded, decoded, thr>>

InitBits == data = <<>> /\ pc = "b_write" /\ InitRest

SpecBits == InitBits /\ [][BitWrite \/ BitFlush \/ BitRead]_vars

\* ======================================================= SymbolStats harness
\* RansEncoder::BuildModel(data) on its own
StatsCount ==
  /\ pc = "s_start"
  /\ enc_stats' = Count(enc_stats, data)
  /\ pc' = "s_done"
  /\ UNCHANGED <<data, enc_state, enc_buffer, parseVars, bw, file, regionVars, decVars,
                 harnessVars, thr>>

InitStats ==
  /\ data \in ShortInputs \cup RunInputs \cup SkewModels \cup HugeInputs
  /\ pc = "s_start"
  /\ InitRest

SpecStats == InitStats /\ [][StatsCount]_vars

\* ============================================================= rANS harness
\* RansEncoder::Init and BuildModel(data)
RansStart ==
  /\ pc = "r_start"
  /\ enc_state' = U32(RANS_L)
  /\ enc_buffer' = <<>>
  /\ enc_stats' = Count(enc_stats, data)
  /\ pc' = "r_enc"
  /\ UNCHANGED <<data, parseVars, bw, file, regionVars, decVars, harnessVars, thr>>

\* RansEncoder::Encode of any symbol the model gives a frequency >= 1
RansEncode ==
  /\ pc = "r_enc"
  /\ Len(encoded) < MaxEnc
  /\ \E sym \in Byte :
       /\ enc_stats.freqs[sym] >= 1
       /\ LET e == Encode(enc_state, enc_buffer, enc_stats, sym)
          IN /\ enc_state' = e.state
             /\ enc_buffer' = e.buffer
       /\ encoded' = Append(encoded, sym)
  /\ UNCHANGED <<data, pc, enc_stats, parseVars, bw, file, regionVars, decVars, wbits, rbits,
                 decoded, thr>>

\* RansEncoder::Flush
RansFlush ==
  /\ pc = "r_enc"
  /\ enc_buffer' = EncoderFlush(enc_state, enc_buffer)
  /\ pc' = "r_flushed"
  /\ UNCHANGED <<data, enc_state, enc_stats, parseVars, bw, file, regionVars, decVars,
                 harnessVars, thr>>

\* GetOutput, GetModelData, then RansDecoder::Init and SetModel on them
RansOpen ==
  /\ pc = "r_flushed"
  /\ rans_data' = enc_buffer
  /\ model_data' = GetModelData(enc_stats)
  /\ dec' = SetModel(NewDecoder(rans_data', dec.stats), model_data')
  /\ pc' = "r_dec"
  /\ UNCHANGED <<data, encVars, parseVars, bw, file, orig_size, flags_data, match_data, br,
                 output, match_ptr, op_count, out_file, harnessVars, thr>>

\* RansDecoder::Decode, once per symbol encoded
RansDecode ==
  /\ pc = "r_dec"
  /\ Len(decoded) < Len(encoded)
  /\ LET r == Decode(dec, rans_data)
     IN /\ dec' = r.dec
        /\ decoded' = Append(decoded, r.symbol)
  /\ UNCHANGED <<data, pc, encVars, parseVars, bw, file, regionVars, br, output, match_ptr, op_count,
                 out_file, wbits, rbits, encoded, thr>>

InitRans ==
  /\ data \in SkewModels \cup HugeInputs
  /\ pc = "r_start"
  /\ InitRest

SpecRans ==
  InitRans /\ [][RansStart \/ RansEncode \/ RansFlush \/ RansOpen \/ RansDecode]_vars

\* ============================================ two interleaved compressions
\* the literals Compress collects from d (lines 72-89)
RECURSIVE LiteralsFrom(_, _)
LiteralsFrom(d, p) ==
  IF p >= Len(d) THEN <<>>
  ELSE LET t == ParseToken(d, p)
       IN (IF t.match THEN <<>> ELSE <<d[p + 1]>>) \o LiteralsFrom(d, p + t.advance)

TwoInputs == SeqsUpTo(0..TwoByte, TwoLen) \ {<<>>}

\* rans.Init() (line 62)
TInit(t) ==
  /\ thr[t].pc = "t_init"
  /\ enc_state' = U32(RANS_L)
  /\ enc_buffer' = <<>>
  /\ thr' = [thr EXCEPT ![t].pc = "t_build"]
  /\ UNCHANGED <<data, pc, enc_stats, parseVars, bw, file, regionVars, decVars, harnessVars>>

\* rans.BuildModel(data) (line 63), then the parse, which touches no shared state
TBuildModel(t) ==
  /\ thr[t].pc = "t_build"
  /\ enc_stats' = Count(enc_stats, thr[t].data)
  /\ thr' = [thr EXCEPT ![t].pc = "t_encode",
                        ![t].lits = LiteralsFrom(thr[t].data, 0),
                        ![t].i = Len(LiteralsFrom(thr[t].data, 0)) - 1]
  /\ UNCHANGED <<data, pc, enc_state, enc_buffer, parseVars, bw, file, regionVars, decVars,
                 harnessVars>>

\* rans.Encode(literals[i]) (line 119)
TEncode(t) ==
  /\ thr[t].pc = "t_encode"
  /\ thr[t].i >= 0
  /\ IF EncodeHangs(enc_stats, thr[t].lits[thr[t].i + 1])
     THEN /\ thr' = [thr EXCEPT ![t].pc = "t_hung"]
          /\ UNCHANGED <<enc_state, enc_buffer>>
     ELSE LET e == Encode(enc_state, enc_buffer, enc_stats, thr[t].lits[thr[t].i + 1])
          IN /\ enc_state' = e.state
             /\ enc_buffer' = e.buffer
             /\ thr' = [thr EXCEPT ![t].i = thr[t].i - 1]
  /\ UNCHANGED <<data, pc, enc_stats, parseVars, bw, file, regionVars, decVars, harnessVars>>

\* rans.Flush() (line 123)
TFlush(t) ==
  /\ thr[t].pc = "t_encode"
  /\ thr[t].i < 0
  /\ enc_buffer' = EncoderFlush(enc_state, enc_buffer)
  /\ thr' = [thr EXCEPT ![t].pc = "t_getout"]
  /\ UNCHANGED <<data, pc, enc_state, enc_stats, parseVars, bw, file, regionVars, decVars,
                 harnessVars>>

\* rans.GetOutput() (line 126)
TGetOutput(t) ==
  /\ thr[t].pc = "t_getout"
  /\ thr' = [thr EXCEPT ![t].pc = "t_getmodel", ![t].out = enc_buffer]
  /\ UNCHANGED <<data, pc, encVars, parseVars, bw, file, regionVars, decVars, harnessVars>>

\* rans.GetModelData() (line 127)
TGetModelData(t) ==
  /\ thr[t].pc = "t_getmodel"
  /\ thr' = [thr EXCEPT ![t].pc = "t_done", ![t].model = GetModelData(enc_stats)]
  /\ UNCHANGED <<data, pc, encVars, parseVars, bw, file, regionVars, decVars, harnessVars>>

InitTwo ==
  /\ data = <<>>
  /\ pc = "two"
  /\ enc_state = U32(RANS_L) /\ enc_buffer = <<>> /\ enc_stats = ZeroStats
  /\ pos = 0 /\ literals = <<>> /\ matches = <<>> /\ is_match = <<>> /\ lit_i = 0
  /\ bw = NewBitWriter /\ packed_matches = <<>> /\ file = <<>>
  /\ orig_size = 0 /\ rans_data = <<>> /\ flags_data = <<>> /\ match_data = <<>>
  /\ model_data = <<>>
  /\ dec = NewDecoder(<<>>, ZeroStats) /\ br = NewBitReader
  /\ output = <<>> /\ match_ptr = 0 /\ op_count = 0 /\ out_file = <<>>
  /\ wbits = <<>> /\ rbits = <<>> /\ encoded = <<>> /\ decoded = <<>>
  /\ thr \in [Threads -> {[IdleThread EXCEPT !.pc = "t_init", !.data = d] : d \in TwoInputs}]

NextTwo ==
  \E t \in Threads :
    \/ TInit(t)
    \/ TBuildModel(t)
    \/ TEncode(t)
    \/ TFlush(t)
    \/ TGetOutput(t)
    \/ TGetModelData(t)

SpecTwo == InitTwo /\ [][NextTwo]_vars

\* ===================================================== malformed artifacts
\* Decompress run on artifacts that Compress need not have written: any
\* orig_size in 0..MalSize, up to MalRecords match records of distance
\* 0..MalDist and of length 0 or MalLen, the last possibly partial,
\* flag regions shorter than the token count, and literal regions with and
\* without a full model.
MalSize == 2
MalDist == 2
MalLen == 2
MalRecords == 1

MalRecordKinds == {[distance |-> d, length |-> l] : d \in 0..MalDist, l \in {0, MalLen}}

\* at most MalRecords records, the last of them possibly cut to two bytes
MalMatchRegions ==
  {PackMatches(ms, 1) : ms \in SeqsUpTo(MalRecordKinds, MalRecords)}
    \cup {PackMatches(ms, 1) \o <<0, 0>> : ms \in SeqsUpTo(MalRecordKinds, MalRecords - 1)}

\* flags 0 1 0 0 ..., 1 0 1 0 0 ..., and no flag byte at all
MalFlagRegions == {<<>>, <<64>>, <<160>>}

\* an empty rANS region with a model shorter than 512 bytes (SetModel then
\* leaves the statistics as they are), and a flushed initial state with a full model
MalLiteralRegions ==
  {[rans |-> <<>>, model |-> <<>>],
   [rans |-> EncoderFlush(U32(RANS_L), <<>>), model |-> GetModelData(Count(ZeroStats, <<0, 1>>))]}

\* an artifact whose magic is not MIDO
BadMagicFile == Run(0, 24)

MalArtifacts ==
  {Container(n, l.rans, f, m, l.model) :
     n \in 0..MalSize, l \in MalLiteralRegions, f \in MalFlagRegions, m \in MalMatchRegions}
    \cup {BadMagicFile}

\* what the members of a RansDecoderImpl that Init(model) did not fill may
\* hold: zeroes, or the statistics of an earlier decoder in the same storage
\* (a model of 512 bytes or more overwrites them, whatever they were)
StrayStats == {ZeroStats, Count(ZeroStats, <<1>>)}

InitMal ==
  /\ data = <<>>
  /\ pc = "d_start"
  /\ file \in MalArtifacts
  /\ dec \in {NewDecoder(<<>>, s) :
               s \in IF U32At(file, 20) < MODEL_BYTES THEN StrayStats ELSE {ZeroStats}}
  /\ enc_state = U32(RANS_L) /\ enc_buffer = <<>> /\ enc_stats = ZeroStats
  /\ pos = 0 /\ literals = <<>> /\ matches = <<>> /\ is_match = <<>> /\ lit_i = 0
  /\ bw = NewBitWriter /\ packed_matches = <<>>
  /\ orig_size = 0 /\ rans_data = <<>> /\ flags_data = <<>> /\ match_data = <<>>
  /\ model_data = <<>>
  /\ br = NewBitReader
  /\ output = <<>> /\ match_ptr = 0 /\ op_count = 0 /\ out_file = <<>>
  /\ wbits = <<>> /\ rbits = <<>> /\ encoded = <<>> /\ decoded = <<>>
  /\ thr = [t \in Threads |-> IdleThread]

NextMal ==
  \/ DecompressOpen
  \/ DecompressStep
  \/ DecompressWrite

SpecMal == InitMal /\ [][NextMal]_vars

\* Decompress is sequential code: once in the loop, the next iteration, and
\* after the loop the write of the output, is taken
SpecMalFair == SpecMal /\ WF_vars(DecompressStep) /\ WF_vars(DecompressWrite)

\* ================================================================== properties
\* the number of k in 1..n with flags[k] = b
CountFlags(flags, n, b) == Cardinality({k \in 1..n : flags[k] = b})

\* The token stream of the parser: the k-th flag says whether token k is the
\* next match or the next literal.
Tokens ==
  [k \in 1..Len(is_match) |->
     IF is_match[k]
     THEN LET m == matches[CountFlags(is_match, k, TRUE)]
          IN [match |-> TRUE, distance |-> m.distance, length |-> m.length, byte |-> 0]
     ELSE [match |-> FALSE, distance |-> 0, length |-> 1,
           byte |-> literals[CountFlags(is_match, k, FALSE)]]]

\* append n bytes, one at a time, each copied from distance bytes before the
\* current end of out (nothing is appended once the source is out of range)
RECURSIVE ReplayCopy(_, _, _)
ReplayCopy(out, distance, n) ==
  IF n = 0 \/ distance < 1 \/ distance > Len(out) THEN out
  ELSE ReplayCopy(Append(out, out[Len(out) - distance + 1]), distance, n - 1)

RECURSIVE Replay(_, _, _)
Replay(toks, k, out) ==
  IF k > Len(toks) THEN out
  ELSE Replay(toks, k + 1,
              IF toks[k].match THEN ReplayCopy(out, toks[k].distance, toks[k].length)
              ELSE Append(out, toks[k].byte))

ParseDone == pc \in {"c_encode", "d_start", "d_loop", "d_break", "done"}

\* C7: once the parse loop has ended, replaying its tokens in order (a byte per
\* literal, `length` bytes copied one at a time from `distance` bytes back per
\* match) yields exactly the input, and the token lengths sum to N.
C7_ReplayReproducesInput ==
  ParseDone =>
    /\ Replay(Tokens, 1, <<>>) = data
    /\ SumOver([k \in 1..Len(is_match) |-> Tokens[k].length], 1..Len(is_match)) = Len(data)

C7_Witness ==
  /\ ParseDone
  /\ Len(matches) >= 2
  /\ Len(literals) >= 4
  /\ Replay(Tokens, 1, <<>>) = data

\* the input position at which token k starts
TokenPos(k) == SumOver([j \in 1..Len(is_match) |-> Tokens[j].length], 1..(k - 1))

\* C8: every match token emitted at position p has 1 <= distance <= min(32768, p)
\* and 3 <= length <= min(255, distance, N - p); its source range ends at or
\* before p, and the packed record holds both fields unchanged in 16 and 8 bits.
C8_MatchTokenBounds ==
  /\ \A k \in 1..Len(is_match) :
       Tokens[k].match =>
         LET p == TokenPos(k)
             t == Tokens[k]
         IN /\ 1 <= t.distance /\ t.distance <= Min(WINDOW_SIZE, p)
            /\ MIN_MATCH <= t.length
            /\ t.length <= Min(MAX_MATCH, Min(t.distance, Len(data) - p))
            /\ (p - t.distance) + t.length <= p
  /\ pc = "c_encode" =>
       /\ Len(packed_matches) = 3 * Len(matches)
       /\ \A n \in 1..Len(matches) :
            /\ packed_matches[3 * n - 2] + 256 * packed_matches[3 * n - 1] = matches[n].distance
            /\ packed_matches[3 * n] = matches[n].length

\* a parse in which the 255 cap binds on one match and the no-self-overlap
\* rule (length = distance) on another
C8_Witness ==
  /\ pc = "c_encode"
  /\ \E n \in 1..Len(matches) :
       matches[n].length = MAX_MATCH /\ matches[n].distance > MAX_MATCH
  /\ \E n \in 1..Len(matches) : matches[n].length = matches[n].distance

\* C10 as stated: for 64 bytes of 0x58 the tokens are one literal X followed
\* only by matches (distance 1, length 3).
C10_OneLiteralThenDist1Len3 ==
  (ParseDone /\ data = Run(88, 64)) =>
    /\ Len(is_match) >= 2
    /\ ~Tokens[1].match /\ Tokens[1].byte = 88
    /\ \A k \in 2..Len(is_match) :
         Tokens[k].match /\ Tokens[k].distance = 1 /\ Tokens[k].length = 3

\* C10 amended: for 64 bytes of 0x58 the tokens are three literals X followed
\* only by matches, which are (3,3), (6,6), (12,12), (24,24), (48,16): each
\* match starts at position 0 and is as long as the no-self-overlap rule and
\* the end of the input allow.
C10_ThreeLiteralsThenDoubling ==
  (ParseDone /\ data = Run(88, 64)) =>
    /\ is_match = <<FALSE, FALSE, FALSE, TRUE, TRUE, TRUE, TRUE, TRUE>>
    /\ literals = <<88, 88, 88>>
    /\ matches = <<[distance |-> 3, length |-> 3], [distance |-> 6, length |-> 6],
                   [distance |-> 12, length |-> 12], [distance |-> 24, length |-> 24],
                   [distance |-> 48, length |-> 16]>>
    /\ \A k \in 4..Len(is_match) :
         /\ Tokens[k].distance = TokenPos(k)
         /\ Tokens[k].length = Min(TokenPos(k), Len(data) - TokenPos(k))

C10_Witness == pc = "c_encode" /\ data = Run(88, 64) /\ Len(matches) = 5

FileWritten == pc \in {"d_start", "d_loop", "d_break", "d_return", "done"}

\* C6 as stated: 24 plus the sum of the five header size fields (original_size,
\* rans_size, flags_size, match_size, model_size) is the artifact's length.
C6_FiveFieldsSum ==
  FileWritten =>
    24 + U32At(file, 4) + U32At(file, 8) + U32At(file, 12) + U32At(file, 16)
      + U32At(file, 20) = Len(file)

\* C6 amended: 24 plus the sum of the four region size fields (rans_size,
\* flags_size, match_size, model_size) is the artifact's length; original_size
\* is the input's length and is not part of the sum.
C6_RegionFieldsSum ==
  FileWritten =>
    /\ 24 + U32At(file, 8) + U32At(file, 12) + U32At(file, 16) + U32At(file, 20) = Len(file)
    /\ U32At(file, 4) = Len(data)

C6_Witness ==
  /\ FileWritten
  /\ U32At(file, 12) >= 2
  /\ U32At(file, 16) >= 6
  /\ U32At(file, 8) >= 5
  /\ 24 + U32At(file, 8) + U32At(file, 12) + U32At(file, 16) + U32At(file, 20) = Len(file)

\* C1: for every non-empty input, the bytes Decompress writes from the artifact
\* Compress wrote are the input.
C1_RoundTrip == (pc = "done") => (out_file = data)

\* ------------------------------------------------------------ C5 (SpecBits)
\* bit k (0 = least significant) of a byte
BitOf(byte, k) == (byte \div (2 ^ k)) % 2 = 1

\* C5: after WriteBit for each bit of B and Flush, the bytes are ceil(|B| / 8)
\* in number, bit j of B is bit 7 - j mod 8 of byte j div 8, the unused low
\* bits of the last byte are 0, and ReadBit returns the bits of B in order.
C5_BitOrder ==
  pc = "b_read" =>
    /\ Len(flags_data) = (Len(wbits) + 7) \div 8
    /\ \A j \in 0..(Len(wbits) - 1) :
         BitOf(flags_data[j \div 8 + 1], 7 - (j % 8)) = wbits[j + 1]
    /\ \A j \in Len(wbits)..(8 * Len(flags_data) - 1) :
         ~BitOf(flags_data[j \div 8 + 1], 7 - (j % 8))
    /\ Len(rbits) <= Len(wbits)
    /\ \A j \in 1..Len(rbits) : rbits[j] = wbits[j]

C5_Witness ==
  /\ pc = "b_read"
  /\ Len(wbits) > 8
  /\ Len(wbits) % 8 # 0
  /\ wbits[1] /\ ~wbits[2] /\ wbits[Len(wbits)]
  /\ rbits = wbits

\* ----------------------------------------------------------- C4 (SpecStats)
\* C4: for a non-empty buffer, after Count the 256 frequencies sum to 4096,
\* cum_freqs[256] is 4096 and every byte of the buffer has frequency >= 1.
C4_ModelSum ==
  (pc = "s_done" /\ data # <<>>) =>
    /\ SumRange(enc_stats.freqs, 0, 255) = PROB_SCALE
    /\ enc_stats.cum_freqs[256] = PROB_SCALE
    /\ \A i \in 1..Len(data) : enc_stats.freqs[data[i]] >= 1

\* the scaled total before adjustment
ScaledTotal(d) == SumRange([s \in Byte |-> ScaleFreq(Tally(d)[s], Len(d))], 0, 255)

\* an input whose scaled total exceeds 4096, so that frequencies are taken away
C4_Witness ==
  /\ pc = "s_done"
  /\ data # <<>>
  /\ ScaledTotal(data) > PROB_SCALE
  /\ enc_stats.cum_freqs[256] = PROB_SCALE
  /\ \E i \in 1..Len(data) : enc_stats.freqs[data[i]] = 1

\* ------------------------------------------------------- C2, C3 (SpecRans)
\* C2: k Decode calls on the encoder's output and serialized model return the
\* k encoded symbols in reverse order.
C2_DecodeReversesEncode ==
  pc = "r_dec" =>
    \A j \in 1..Len(decoded) : decoded[j] = encoded[Len(encoded) + 1 - j]

\* the exact (unbounded) value of the update is below 2^32
UpdateFits(state, freq, start) ==
  LET q == U32Div(state, freq)
      sh == U32Shl(q, PROB_BITS)
  IN /\ q.hi < 2 ^ (16 - PROB_BITS)
     /\ sh.hi + (sh.lo + U32Mod(state, freq) + start) \div Half < Half

\* C3: from Init and after every Encode of a symbol of frequency >= 1 the
\* state is at least RANS_L, and the update of any further such Encode is
\* computed without wrapping the 32-bit state.
C3_EncoderStateBounds ==
  pc = "r_enc" =>
    /\ U32Ge(enc_state, U32(RANS_L))
    /\ enc_state.hi < Half /\ enc_state.lo < Half
    /\ \A sym \in Byte :
         enc_stats.freqs[sym] >= 1 =>
           UpdateFits(RenormOut(enc_state, enc_buffer, enc_stats.freqs[sym]).state,
                      enc_stats.freqs[sym], enc_stats.cum_freqs[sym])

\* an Encode that pushed bytes and left the state above 2^24
C3_Witness ==
  /\ pc = "r_enc"
  /\ Len(encoded) >= 2
  /\ Len(enc_buffer) >= 1
  /\ enc_state.hi >= 256
  /\ U32Ge(enc_state, U32(RANS_L))

\* -------------------------------------------------------------- C9 (SpecTwo)
RECURSIVE EncodeAll(_, _, _, _)
EncodeAll(state, buffer, stats, syms) ==
  IF syms = <<>> THEN [state |-> state, buffer |-> buffer]
  ELSE LET e == Encode(state, buffer, stats, Head(syms))
       IN EncodeAll(e.state, e.buffer, stats, Tail(syms))

\* what GetOutput and GetModelData return when Compress runs alone on d
AloneModel(d) == GetModelData(Count(ZeroStats, d))
AloneOutput(d) ==
  LET e == EncodeAll(U32(RANS_L), <<>>, Count(ZeroStats, d), Reverse(LiteralsFrom(d, 0)))
  IN EncoderFlush(e.state, e.buffer)

\* C9: each of two compressions whose RansEncoder calls interleave obtains the
\* rANS bytes and the model bytes it obtains when run alone.
C9_NoInterference ==
  \A t \in Threads :
    thr[t].pc = "t_done" =>
      /\ thr[t].out = AloneOutput(thr[t].data)
      /\ thr[t].model = AloneModel(thr[t].data)

\* ------------------------------------------------ Decompress on any artifact
\* the flag the next iteration of the decode loop reads
NextFlag == ReadBit(flags_data, br).bit

\* the loop is about to process a token whose flag is 1
AtMatchToken == pc = "d_loop" /\ Len(output) < orig_size /\ NextFlag

\* match_ptr + 3 > match_data.size()
MatchUnderflow == match_ptr + 3 > Len(match_data)

\* the fields of the record at match_ptr
NextDist == match_data[match_ptr + 1] + 256 * match_data[match_ptr + 2]
NextLen == match_data[match_ptr + 3]

\* dist > output.size()
InvalidDistance == ~MatchUnderflow /\ NextDist > Len(output)

\* C11: a token whose flag is 1 appends bytes only if a full 3-byte record
\* remains and its distance is at most the output length; on a match underflow
\* or an invalid distance the loop stops at once with the output as it was
\* before the token, and the only step after that writes this output: no
\* later token is processed.
C11_MalformedMatchAborts ==
  [][/\ AtMatchToken =>
          IF MatchUnderflow \/ InvalidDistance
          THEN /\ pc' = "d_break"
               /\ output' = output
               /\ dec' = dec
          ELSE /\ pc' = "d_loop"
               /\ Len(output') = Len(output) + NextLen
               /\ SubSeq(output', 1, Len(output)) = output
     /\ (AtMatchToken /\ output' # output) => (~MatchUnderflow /\ NextDist <= Len(output))
     /\ pc = "d_break" =>
          /\ pc' = "done"
          /\ out_file' = output
          /\ UNCHANGED <<output, op_count, br, match_ptr, dec>>]_vars

\* an abort on an invalid distance after a literal had been decoded
C11_Witness ==
  /\ pc = "d_break"
  /\ Len(output) >= 1
  /\ op_count >= 2
  /\ match_ptr >= 3
  /\ match_data[match_ptr - 2] + 256 * match_data[match_ptr - 1] > Len(output)

\* C12: for every orig_size and every content of the regions the decode loop
\* terminates. Each iteration appends at least one byte, or consumes one
\* 3-byte match record, or breaks; so the iterations number at most
\* orig_size, plus the records of the match region, plus one; and a loop that
\* has been entered is left and its output written.
C12_DecodeLoopTerminates ==
  /\ [][(pc = "d_loop" /\ op_count' # op_count) =>
          /\ op_count' = op_count + 1
          /\ \/ Len(output') > Len(output)
             \/ match_ptr' = match_ptr + 3
             \/ pc' = "d_break"]_vars
  /\ [](op_count <= orig_size + Len(match_data) \div 3 + 1)
  /\ (pc = "d_loop") ~> (pc = "done")

\* a loop that consumed a match record of length 0 and still completed its
\* output
C12_Witness ==
  /\ pc = "done"
  /\ orig_size >= 1
  /\ Len(out_file) >= orig_size
  /\ match_ptr >= 3
  /\ match_data[3] = 0
  /\ op_count >= 2

\* The byte-by-byte copy of a match record that passed the distance check:
\* the first index it reads from, the index read at copy step i, and the
\* length of the output at the moment of that read (i bytes already pushed).
CopyStart == Len(output) - NextDist

CopyReadIndex(i) == CopyStart + i

SizeAtCopyRead(i) == Len(output) + i

PassesDistanceCheck == AtMatchToken /\ ~MatchUnderflow /\ NextDist <= Len(output)

\* C13: for every match record that passes the distance check in Decompress,
\* every index start + i read during the byte-by-byte copy is strictly less
\* than the output length at the moment of that read.
C13_CopyReadsInBounds ==
  PassesDistanceCheck =>
    \A i \in 0..(NextLen - 1) : CopyReadIndex(i) < SizeAtCopyRead(i)

====
